---- MODULE Spec2Model ----
(***************************************************************************)
(* State-machine model of the WebLLM chat client (main.ts): the send turn  *)
(* (sendMessage), the IndexedDB message store, engine initialisation and   *)
(* the UI event handlers.  Every action is one run-to-completion segment   *)
(* of the single-threaded event loop: the code between two awaits.         *)
(***************************************************************************)
EXTENDS Integers, Sequences, FiniteSets, TLC

\* --------------------------------------------------------------- constants
\* SECURITY_CONFIG.  The model keeps the constants and scales their values
\* (2000, 50 and 1000 in the source) to what can be enumerated.
MAX_MESSAGE_LENGTH == 3
MAX_CHAT_HISTORY == 3
MAX_DAILY_REQUESTS == 2
\* MAX_CACHE_SIZE of the markdown cache (100 in the source), scaled.
MAX_CACHE_SIZE == 2
\* The limit the README documents for the object store (50 messages), scaled.
MAX_STORED_MESSAGES == 3
\* RENDER_INTERVAL_MS of sendMessage (300 in the source), in clock ticks.
RENDER_INTERVAL_MS == 2

\* ------------------------------------------------------------------ bounds
\* Activations of sendMessage that can be alive at once.
MaxTurns == 2
\* Content fragments of one stream.
MaxDeltas == 2
\* Confirmed clears and model switches of one run.
MaxUserActs == 1
\* Records appended to the object store, and the readings of Date.now(),
\* in the model of the store's records.
MaxAppends == 3
MaxClock == 2
\* Calls of renderMarkdownString in the model of the markdown cache.
MaxRenders == 5
\* Readings of Date.now() and chunks of one stream in the model of the
\* render throttle.
MaxTime == 5
MaxChunks == 3

\* initialize() constructs one engine, every model switch one more.
MaxEngines == MaxUserActs + 1

Turns == 1..MaxTurns
EngineIds == 1..MaxEngines

\* ------------------------------------------------------------- text values
\* A string is a sequence of characters; " " is the whitespace character.
Chars == {" ", "x"}
MaxInputLen == MAX_MESSAGE_LENGTH + 2
InputStrings == UNION {[1..k -> Chars] : k \in 0..MaxInputLen}

IsSpace(c) == c = " "

RECURSIVE TrimLeft(_)
TrimLeft(s) ==
    IF s # <<>> /\ IsSpace(Head(s)) THEN TrimLeft(Tail(s)) ELSE s

RECURSIVE TrimRight(_)
TrimRight(s) ==
    IF s # <<>> /\ IsSpace(s[Len(s)]) THEN TrimRight(SubSeq(s, 1, Len(s) - 1)) ELSE s

\* String.prototype.trim
Trim(s) == TrimRight(TrimLeft(s))

\* The texts typed into the message input in the model of the application.
TooLongText == [i \in 1..(MAX_MESSAGE_LENGTH + 1) |-> "x"]
InputTexts == {<<" ">>, <<"x", " ">>, TooLongText}

\* The content fragments of a stream, in the order the engine yields them
\* (never empty: an empty fragment is falsy and skipped by the loop).  The
\* fragments differ by position, so that their order shows in the buffer.
Letters == <<"a", "b", "c", "d">>
DeltaAt(k) == <<Letters[k]>>

\* The two user-facing error texts of the catch block.
TIMEOUT_TEXT == <<"T">>
FAILURE_TEXT == <<"F">>

\* Values a rejected request or a failing stream can throw.
TimeoutError == [isError |-> TRUE, message |-> "Request timeout"]
ThrownValues ==
    { [isError |-> TRUE, message |-> "engine failure"],
      [isError |-> TRUE, message |-> "Request timeout"] }

AVAILABLE_MODELS == {"m1", "m2"}
SelectorValues == AVAILABLE_MODELS \cup {"tampered"}

\* ------------------------------------------------------------------- state
VARIABLES
    state,        \* the AppState object: engine, messages, isLoading, ...
    controls,     \* disabled flags of send button, input, selector; dialog
    chatMessages, \* the bubbles shown in #chat-messages, in order
    store,        \* the records of the IndexedDB object store, in key order
    idbQueue,     \* pending IndexedDB requests, in transaction order
    engines,      \* every MLCEngine constructed: load status and model
    timers,       \* turns whose timeout timer has not fired yet
    initPc,       \* position of initialize()
    turns,        \* per activation of sendMessage: position and locals
    userActs,     \* confirmed clears and model switches so far
    vIn, vOut     \* input and result of a validateMessage call

vars == <<state, controls, chatMessages, store, idbQueue, engines, timers,
          initPc, turns, userActs, vIn, vOut>>

\* The variables of the application.
appVars == <<state, controls, chatMessages, store, idbQueue, engines, timers,
             initPc, turns, userActs>>

NoText == <<>>
NoResult == [valid |-> FALSE, error |-> "not called"]

Msg(role, content) == [role |-> role, content |-> content]

\* ------------------------------------------------------- pure functions
\* validateMessage with the length test written >= instead of >.
validateMessage_RejectsBoundary(message) ==
    LET trimmed == Trim(message) IN
    IF Len(trimmed) = 0
    THEN [valid |-> FALSE, error |-> "empty"]
    ELSE IF Len(trimmed) >= MAX_MESSAGE_LENGTH
         THEN [valid |-> FALSE, error |-> "too long"]
         ELSE [valid |-> TRUE, error |-> "undefined"]

validateMessage(message) ==
    LET trimmed == Trim(message) IN
    IF Len(trimmed) = 0
    THEN [valid |-> FALSE, error |-> "empty"]
    ELSE IF Len(trimmed) > MAX_MESSAGE_LENGTH
         THEN [valid |-> FALSE, error |-> "too long"]
         ELSE [valid |-> TRUE, error |-> "undefined"]

\* trimChatHistory keeping the oldest messages instead of the newest.
trimChatHistory_KeepsOldest(msgs) ==
    IF Len(msgs) > MAX_CHAT_HISTORY
    THEN SubSeq(msgs, 1, MAX_CHAT_HISTORY)
    ELSE msgs

\* trimChatHistory, as a function of state.messages
trimChatHistory(msgs) ==
    IF Len(msgs) > MAX_CHAT_HISTORY
    THEN SubSeq(msgs, Len(msgs) - MAX_CHAT_HISTORY + 1, Len(msgs))
    ELSE msgs

\* getRateLimitStatus with the test written > instead of >=.
getRateLimitStatus_OffByOne(requestCount) ==
    IF requestCount > MAX_DAILY_REQUESTS
    THEN [allowed |-> FALSE]
    ELSE [allowed |-> TRUE]

getRateLimitStatus(requestCount) ==
    IF requestCount >= MAX_DAILY_REQUESTS
    THEN [allowed |-> FALSE]
    ELSE [allowed |-> TRUE]

\* isValidModel answering true for every string.
isValidModel_AcceptsAll(model) == model \in SelectorValues

isValidModel(model) == model \in AVAILABLE_MODELS

\* renderMarkdownString: the sanitized markup produced from a raw text.
renderMarkdownString(markdown) == [kind |-> "markdown", src |-> markdown]

PlainText(content) == [kind |-> "text", src |-> content]
EmptyContent == [kind |-> "empty", src |-> NoText]

\* A bubble of #chat-messages.  turn > 0 marks the element a streaming
\* turn created (lastMessageElement); its content lives in turns[turn].shown.
Bubble(role, body) == [role |-> role, turn |-> 0, body |-> body]
StreamBubble(t) == [role |-> "assistant", turn |-> t, body |-> EmptyContent]

\* renderMessage: the bubble appended to #chat-messages
renderMessage(role, content) ==
    IF role = "assistant"
    THEN Bubble(role, renderMarkdownString(content))
    ELSE Bubble(role, PlainText(content))

\* The text of the catch block of sendMessage for a caught value.
CatchText(error) ==
    IF error.isError /\ error.message = "Request timeout"
    THEN TIMEOUT_TEXT
    ELSE FAILURE_TEXT

\* ------------------------------------------------------------ initial state
\* What IndexedDB holds from earlier sessions when the page is loaded: one
\* exchange.  The empty store is reached by a clear.
InitialStores ==
    { <<Msg("user", <<"x">>), Msg("assistant", <<"a">>)>> }

NoRequest == [issued |-> FALSE, engine |-> 0, messages |-> <<>>]
NoError == [isError |-> FALSE, message |-> "none"]

\* The locals of an activation of sendMessage: userMessage (msg),
\* assistantMessage (buf), lastMessageElement (elem) and its content
\* (shown), the request it issued; and, once it has ended, how (outcome,
\* caught value).
NoTurn ==
    [pc |-> "none", msg |-> NoText, buf |-> NoText, elem |-> "null",
     shown |-> EmptyContent, req |-> NoRequest, outcome |-> "none",
     caught |-> NoError]

NoEngine == [status |-> "none", model |-> "none", owner |-> "none"]

\* The module has been evaluated: the state object is as declared and
\* initialize() has run up to `await initializeDatabase()`.
AppInit ==
    /\ state = [engine |-> 0, messages |-> <<>>, isLoading |-> FALSE,
                selectedModel |-> "m1", requestCount |-> 0, db |-> "null"]
    /\ controls = [send |-> FALSE, input |-> FALSE, select |-> FALSE,
                   dialog |-> FALSE]
    /\ chatMessages = <<>>
    /\ store \in InitialStores
    /\ idbQueue = <<>>
    /\ engines = [e \in EngineIds |-> NoEngine]
    /\ timers = {}
    /\ initPc = "openDb"
    /\ turns = [t \in Turns |-> NoTurn]
    /\ userActs = 0

Init ==
    /\ AppInit
    /\ vIn = NoText
    /\ vOut = NoResult

\* ----------------------------------------------------------------- helpers
FreeEngines == {e \in EngineIds : engines[e].status = "none"}
FreeTurns == {t \in Turns : turns[t].pc \in {"none", "returned", "threw"}}
Min(S) == CHOOSE x \in S : \A y \in S : x <= y

\* A turn is in progress from the entry guard of sendMessage until
\* sendMessage returns or throws.
InProgress(t) ==
    turns[t].pc \in {"saveUser", "awaitCreate", "streaming", "saveAssistant"}

IdbRequest(kind, t, msg) == [kind |-> kind, turn |-> t, msg |-> msg]
NoMsg == Msg("none", NoText)

\* initializeEngine without `state.messages = []`.
InitializeEngine_KeepsWindow(st, owner) ==
    /\ FreeEngines # {}
    /\ LET e == Min(FreeEngines) IN
        /\ state' = [st EXCEPT !.engine = e]
        /\ engines' = [engines EXCEPT ![e] =
                          [status |-> "loading", model |-> st.selectedModel,
                           owner |-> owner]]
    /\ controls' = [controls EXCEPT !.send = TRUE, !.input = TRUE, !.select = TRUE]

\* The synchronous part of initializeEngine, up to `await reload(...)`,
\* run on the AppState st by `owner`.
InitializeEngine(st, owner) ==
    /\ FreeEngines # {}
    /\ LET e == Min(FreeEngines) IN
        /\ state' = [st EXCEPT !.engine = e,
                               !.messages = IF st.engine # 0 THEN <<>> ELSE @]
        /\ engines' = [engines EXCEPT ![e] =
                          [status |-> "loading", model |-> st.selectedModel,
                           owner |-> owner]]
    /\ controls' = [controls EXCEPT !.send = TRUE, !.input = TRUE, !.select = TRUE]

\* The element a turn created stays in #chat-messages with the content it
\* had when the turn ended.
Settle(bubbles, t, tr) ==
    [i \in 1..Len(bubbles) |->
        IF bubbles[i].turn = t THEN Bubble("assistant", tr[t].shown) ELSE bubbles[i]]

\* The activation t ends (sendMessage returns or throws): its locals are gone.
\* Its timer, if still pending, stays pending: see TimerFireStale.
EndTurn(t, tr, pc, outcome, caught) ==
    /\ turns' = [tr EXCEPT ![t] = [NoTurn EXCEPT !.pc = pc, !.outcome = outcome,
                                                 !.caught = caught]]
    /\ timers' = timers \ {t}

\* The finally block of sendMessage, applied to the AppState st.
Finally(st) == [st EXCEPT !.isLoading = FALSE]

\* The catch block followed by the finally block, for turn t.
CatchAndFinally(t, error, outcome) ==
    /\ state' = Finally(state)
    /\ controls' = [controls EXCEPT !.send = FALSE]
    /\ chatMessages' = Append(Settle(chatMessages, t, turns),
                              renderMessage("assistant", CatchText(error)))
    /\ EndTurn(t, turns, "returned", outcome, error)

\* The same without state.requestCount++.
IssueRequest_NoCount(t, st, tr) ==
    LET window == trimChatHistory(st.messages) IN
    /\ state' = [st EXCEPT !.messages = window]
    /\ timers' = timers \cup {t}
    /\ turns' = [tr EXCEPT ![t].pc = "awaitCreate",
                           ![t].req = [issued |-> TRUE, engine |-> st.engine,
                                       messages |-> window]]

\* sendMessage from trimChatHistory() after the user message was saved up
\* to the await of Promise.race: the request is issued, the timer is set.
IssueRequest(t, st, tr) ==
    LET window == trimChatHistory(st.messages) IN
    /\ state' = [st EXCEPT !.messages = window, !.requestCount = @ + 1]
    /\ timers' = timers \cup {t}
    /\ turns' = [tr EXCEPT ![t].pc = "awaitCreate",
                           ![t].req = [issued |-> TRUE, engine |-> st.engine,
                                       messages |-> window]]

\* --------------------------------------------------------- initialisation
DbOpenSuccess ==
    /\ initPc = "openDb"
    /\ state' = [state EXCEPT !.db = "open"]
    /\ idbQueue' = Append(idbQueue, IdbRequest("load", 0, NoMsg))
    /\ initPc' = "load"
    /\ UNCHANGED <<controls, chatMessages, store, engines, timers,
                   turns, userActs, vIn, vOut>>

DbOpenError ==
    /\ initPc = "openDb"
    /\ initPc' = "failed"
    /\ UNCHANGED <<state, controls, chatMessages, store, idbQueue, engines,
                   timers, turns, userActs, vIn, vOut>>

RestoredBubbles(saved) ==
    [i \in 1..Len(saved) |-> renderMessage(saved[i].role, saved[i].content)]

LoadSuccess ==
    /\ idbQueue # <<>>
    /\ Head(idbQueue).kind = "load"
    /\ idbQueue' = Tail(idbQueue)
    /\ LET saved == store
           st == IF Len(saved) > 0 THEN [state EXCEPT !.messages = saved] ELSE state
       IN /\ chatMessages' = chatMessages \o RestoredBubbles(saved)
          /\ InitializeEngine(st, "initialize")
    /\ initPc' = "engine"
    /\ UNCHANGED <<store, timers, turns, userActs, vIn, vOut>>

LoadError ==
    /\ idbQueue # <<>>
    /\ Head(idbQueue).kind = "load"
    /\ idbQueue' = Tail(idbQueue)
    /\ initPc' = "failed"
    /\ UNCHANGED <<state, controls, chatMessages, store, engines, timers,
                   turns, userActs, vIn, vOut>>

ReloadDone(e) ==
    /\ engines[e].status = "loading"
    /\ engines' = [engines EXCEPT ![e].status = "ready"]
    /\ controls' = [controls EXCEPT !.send = FALSE, !.input = FALSE, !.select = FALSE]
    /\ initPc' = IF engines[e].owner = "initialize" THEN "done" ELSE initPc
    /\ UNCHANGED <<state, chatMessages, store, idbQueue, timers,
                   turns, userActs, vIn, vOut>>

ReloadFail(e, webgpu) ==
    /\ engines[e].status = "loading"
    /\ engines' = [engines EXCEPT ![e].status =
                      IF webgpu THEN "unavailable" ELSE "failed"]
    /\ controls' = IF webgpu
                   THEN [controls EXCEPT !.dialog = TRUE, !.send = TRUE,
                                         !.input = TRUE, !.select = TRUE]
                   ELSE [controls EXCEPT !.send = TRUE, !.input = TRUE,
                                         !.select = FALSE]
    /\ initPc' = IF engines[e].owner = "initialize" THEN "done" ELSE initPc
    /\ UNCHANGED <<state, chatMessages, store, idbQueue, timers,
                   turns, userActs, vIn, vOut>>

\* ------------------------------------------------------------ UI handlers
\* The change handler for a value that is not in the whitelist: only the
\* status line changes.
SelectRejected(v) ==
    /\ ~isValidModel(v)
    /\ UNCHANGED appVars

\* The change handler for a whitelisted value, up to `await reload(...)`.
SelectAccepted(v) ==
    /\ isValidModel(v)
    /\ v # state.selectedModel
    /\ userActs < MaxUserActs
    /\ userActs' = userActs + 1
    /\ InitializeEngine([state EXCEPT !.selectedModel = v], "change")
    /\ UNCHANGED <<chatMessages, store, idbQueue, timers, initPc, turns>>

ModelChangeInvalid(v) ==
    /\ ~controls.select
    /\ SelectRejected(v)
    /\ UNCHANGED <<vIn, vOut>>

ModelChange(v) ==
    /\ ~controls.select
    /\ SelectAccepted(v)
    /\ UNCHANGED <<vIn, vOut>>

DialogClose ==
    /\ controls.dialog
    /\ controls' = [controls EXCEPT !.dialog = FALSE]
    /\ UNCHANGED <<state, chatMessages, store, idbQueue, engines, timers,
                   initPc, turns, userActs, vIn, vOut>>

\* The handlers' test without its isLoading conjunct.
CanSend_NoBusyCheck == state.engine # 0

\* The handlers' test before sendMessage is called.
CanSend == ~state.isLoading /\ state.engine # 0

\* sendMessage that does not wait for saveMessage(user) before it goes on.
SendMessage_NoAwait(t, message) ==
    LET st == [state EXCEPT !.isLoading = TRUE,
                            !.messages = Append(@, Msg("user", message))]
        tr == [turns EXCEPT ![t] = [NoTurn EXCEPT !.pc = "saveUser", !.msg = message]]
    IN
    /\ controls' = [controls EXCEPT !.send = TRUE]
    /\ chatMessages' = Append(chatMessages, renderMessage("user", message))
    /\ IssueRequest(t, st, tr)
    /\ idbQueue' = IF st.db = "null"
                   THEN idbQueue
                   ELSE Append(idbQueue, IdbRequest("add", t, Msg("user", message)))
    /\ UNCHANGED <<store, engines, initPc, userActs>>

\* sendMessage(message) for the activation t: from its entry to the first
\* point where it waits for an event (an IndexedDB request or the race).
SendMessage(t, message) ==
    LET st == [state EXCEPT !.isLoading = TRUE,
                            !.messages = Append(@, Msg("user", message))]
        tr == [turns EXCEPT ![t] = [NoTurn EXCEPT !.pc = "saveUser", !.msg = message]]
    IN
    /\ controls' = [controls EXCEPT !.send = TRUE]
    /\ chatMessages' = Append(chatMessages, renderMessage("user", message))
    /\ IF st.db = "null"
       THEN /\ IssueRequest(t, st, tr)
            /\ UNCHANGED idbQueue
       ELSE /\ state' = st
            /\ turns' = tr
            /\ idbQueue' = Append(idbQueue, IdbRequest("add", t, Msg("user", message)))
            /\ UNCHANGED timers
    /\ UNCHANGED <<store, engines, initPc, userActs>>

\* The body of the handlers without the test of validation.valid.
SendAccepted_NoValidation(raw) ==
    /\ CanSend
    /\ getRateLimitStatus(state.requestCount).allowed
    /\ FreeTurns # {}
    /\ SendMessage(Min(FreeTurns), Trim(raw))

\* The body of both send handlers once the input text was read.
SendAccepted(raw) ==
    /\ validateMessage(Trim(raw)).valid
    /\ CanSend
    /\ getRateLimitStatus(state.requestCount).allowed
    /\ FreeTurns # {}
    /\ SendMessage(Min(FreeTurns), Trim(raw))

\* The handler returns without calling sendMessage, or sendMessage returns
\* at its rate-limit check: only the status line changes.
SendRefused(raw) ==
    /\ \/ ~validateMessage(Trim(raw)).valid
       \/ ~CanSend
       \/ ~getRateLimitStatus(state.requestCount).allowed
    /\ UNCHANGED appVars

SendClick(raw) ==
    /\ ~controls.send
    /\ SendAccepted(raw)
    /\ UNCHANGED <<vIn, vOut>>

SendClickRefused(raw) ==
    /\ ~controls.send
    /\ SendRefused(raw)
    /\ UNCHANGED <<vIn, vOut>>

InputKeypress(raw) ==
    /\ ~controls.input
    /\ SendAccepted(raw)
    /\ UNCHANGED <<vIn, vOut>>

InputKeypressRefused(raw) ==
    /\ ~controls.input
    /\ SendRefused(raw)
    /\ UNCHANGED <<vIn, vOut>>

\* chatMessages.innerHTML = '' and state.messages = [] of the clear handler
ClearView(st) ==
    /\ state' = [st EXCEPT !.messages = <<>>]
    /\ chatMessages' = <<>>

\* click on the clear button, confirm() declined
ClearDeclined ==
    UNCHANGED vars

\* click on the clear button, confirm() accepted: up to `await clearMessages()`,
\* or to the end of the handler when clearMessages returns at once.
ClearClick ==
    /\ userActs < MaxUserActs
    /\ userActs' = userActs + 1
    /\ IF state.db = "null"
       THEN /\ ClearView(state)
            /\ UNCHANGED idbQueue
       ELSE /\ idbQueue' = Append(idbQueue, IdbRequest("clear", 0, NoMsg))
            /\ UNCHANGED <<state, chatMessages>>
    /\ UNCHANGED <<controls, store, engines, timers, initPc, turns,
                   vIn, vOut>>

ClearSuccess ==
    /\ idbQueue # <<>>
    /\ Head(idbQueue).kind = "clear"
    /\ idbQueue' = Tail(idbQueue)
    /\ store' = <<>>
    /\ ClearView(state)
    /\ UNCHANGED <<controls, engines, timers, initPc, turns, userActs, vIn, vOut>>

ClearError ==
    /\ idbQueue # <<>>
    /\ Head(idbQueue).kind = "clear"
    /\ idbQueue' = Tail(idbQueue)
    /\ UNCHANGED <<state, controls, chatMessages, store, engines, timers,
                   initPc, turns, userActs, vIn, vOut>>

\* ------------------------------------------------ the turn after its entry
\* store.add of the user message succeeded: sendMessage resumes.
AddUserSuccess ==
    /\ idbQueue # <<>>
    /\ Head(idbQueue).kind = "add"
    /\ turns[Head(idbQueue).turn].pc = "saveUser"
    /\ idbQueue' = Tail(idbQueue)
    /\ store' = Append(store, Head(idbQueue).msg)
    /\ IssueRequest(Head(idbQueue).turn, state, turns)
    /\ UNCHANGED <<controls, chatMessages, engines, initPc, userActs, vIn, vOut>>

SaveError == [isError |-> TRUE, message |-> "Failed to save message"]

\* store.add of the user message failed: the rejection leaves sendMessage
\* at its await of saveMessage, which is outside its try block.
AddUserError ==
    /\ idbQueue # <<>>
    /\ Head(idbQueue).kind = "add"
    /\ turns[Head(idbQueue).turn].pc = "saveUser"
    /\ idbQueue' = Tail(idbQueue)
    /\ EndTurn(Head(idbQueue).turn, turns, "threw", "saveRejected", SaveError)
    /\ UNCHANGED <<state, controls, chatMessages, store, engines, initPc, userActs, vIn, vOut>>

\* Promise.race settles with the stream.
CreateResolve(t) ==
    /\ turns[t].pc = "awaitCreate"
    /\ engines[turns[t].req.engine].status = "ready"
    /\ turns' = [turns EXCEPT ![t].pc = "streaming"]
    /\ UNCHANGED <<state, controls, chatMessages, store, idbQueue, engines,
                   timers, initPc, userActs, vIn, vOut>>

\* Promise.race settles with the rejection of completions.create.
CreateReject(t, error) ==
    /\ turns[t].pc = "awaitCreate"
    /\ CatchAndFinally(t, error, "error")
    /\ UNCHANGED <<store, idbQueue, engines, initPc, userActs, vIn, vOut>>

\* The setTimeout callback of turn t runs while the race is undecided.
TimerFireWins(t) ==
    /\ t \in timers
    /\ turns[t].pc = "awaitCreate"
    /\ state' = Finally(state)
    /\ controls' = [controls EXCEPT !.send = FALSE]
    /\ chatMessages' = Append(chatMessages,
                              renderMessage("assistant", CatchText(TimeoutError)))
    /\ turns' = [turns EXCEPT ![t] = [NoTurn EXCEPT !.pc = "returned",
                                                    !.outcome = "timeout",
                                                    !.caught = TimeoutError]]
    /\ timers' = timers \ {t}
    /\ UNCHANGED <<store, idbQueue, engines, initPc, userActs, vIn, vOut>>

\* A timer that fires after the race was settled and still ends the turn.
TimerFireLate_Aborts(t) ==
    /\ t \in timers
    /\ turns[t].pc # "awaitCreate"
    /\ CatchAndFinally(t, TimeoutError, "timeout")
    /\ UNCHANGED <<store, idbQueue, engines, initPc, userActs, vIn, vOut>>

\* The setTimeout callback of turn t runs after the race was settled: it
\* rejects a promise nobody waits for any more.
TimerFireLate(t) ==
    /\ t \in timers
    /\ turns[t].pc # "awaitCreate"
    /\ timers' = timers \ {t}
    /\ UNCHANGED <<state, controls, chatMessages, store, idbQueue, engines,
                   initPc, turns, userActs, vIn, vOut>>

\* The same for the timer of an activation that has ended.  Every request
\* counted in requestCount set one timer, and `timers` holds those of the
\* activations still alive.
TimerFireStale ==
    /\ state.requestCount > Cardinality({t \in Turns : turns[t].req.issued})
    /\ UNCHANGED vars

\* An iteration that puts the chunk in front of the buffer.
StreamDelta_Prepends(t, shouldRender) ==
    /\ turns[t].pc = "streaming"
    /\ Len(turns[t].buf) < MaxDeltas
    /\ LET assistantMessage == DeltaAt(Len(turns[t].buf) + 1) \o turns[t].buf IN
        /\ turns' = [turns EXCEPT
                        ![t].buf = assistantMessage,
                        ![t].elem = "created",
                        ![t].shown = IF shouldRender
                                     THEN renderMarkdownString(assistantMessage)
                                     ELSE @]
        /\ chatMessages' = IF turns[t].elem = "null"
                           THEN Append(chatMessages, StreamBubble(t))
                           ELSE chatMessages
    /\ UNCHANGED <<state, controls, store, idbQueue, engines, timers,
                   initPc, userActs, vIn, vOut>>

\* One iteration of the for-await loop for a chunk with content; shouldRender
\* is the outcome of the RENDER_INTERVAL_MS test.
StreamDelta(t, shouldRender) ==
    /\ turns[t].pc = "streaming"
    /\ Len(turns[t].buf) < MaxDeltas
    /\ LET assistantMessage == turns[t].buf \o DeltaAt(Len(turns[t].buf) + 1) IN
        /\ turns' = [turns EXCEPT
                        ![t].buf = assistantMessage,
                        ![t].elem = "created",
                        ![t].shown = IF shouldRender
                                     THEN renderMarkdownString(assistantMessage)
                                     ELSE @]
        /\ chatMessages' = IF turns[t].elem = "null"
                           THEN Append(chatMessages, StreamBubble(t))
                           ELSE chatMessages
    /\ UNCHANGED <<state, controls, store, idbQueue, engines, timers,
                   initPc, userActs, vIn, vOut>>

\* The final render after the loop, on the locals of turn t.
FinalRender(t) ==
    [turns EXCEPT ![t].shown =
        IF turns[t].buf # NoText /\ turns[t].elem # "null"
        THEN renderMarkdownString(turns[t].buf)
        ELSE @]

\* The loop ends: final render, push of the assistant message, saveMessage.
StreamEnd(t) ==
    /\ turns[t].pc = "streaming"
    /\ LET assistantMessage == turns[t].buf
           pushed == IF assistantMessage # NoText
                     THEN [state EXCEPT !.messages =
                              Append(@, Msg("assistant", assistantMessage))]
                     ELSE state
       IN IF assistantMessage # NoText /\ state.db # "null"
          THEN /\ state' = pushed
               /\ turns' = [FinalRender(t) EXCEPT ![t].pc = "saveAssistant"]
               /\ idbQueue' = Append(idbQueue,
                     IdbRequest("add", t, Msg("assistant", assistantMessage)))
               /\ UNCHANGED <<controls, chatMessages, timers>>
          ELSE /\ state' = Finally([pushed EXCEPT !.messages = trimChatHistory(@)])
               /\ controls' = [controls EXCEPT !.send = FALSE]
               /\ chatMessages' = Settle(chatMessages, t, FinalRender(t))
               /\ EndTurn(t, turns, "returned", "success", NoError)
               /\ UNCHANGED idbQueue
    /\ UNCHANGED <<store, engines, initPc, userActs, vIn, vOut>>

\* The stream's iterator rejects.
StreamThrow(t, error) ==
    /\ turns[t].pc = "streaming"
    /\ CatchAndFinally(t, error, "error")
    /\ UNCHANGED <<store, idbQueue, engines, initPc, userActs, vIn, vOut>>

AddAssistantSuccess ==
    /\ idbQueue # <<>>
    /\ Head(idbQueue).kind = "add"
    /\ turns[Head(idbQueue).turn].pc = "saveAssistant"
    /\ idbQueue' = Tail(idbQueue)
    /\ store' = Append(store, Head(idbQueue).msg)
    /\ state' = Finally([state EXCEPT !.messages = trimChatHistory(@)])
    /\ controls' = [controls EXCEPT !.send = FALSE]
    /\ chatMessages' = Settle(chatMessages, Head(idbQueue).turn, turns)
    /\ EndTurn(Head(idbQueue).turn, turns, "returned", "success", NoError)
    /\ UNCHANGED <<engines, initPc, userActs, vIn, vOut>>

AddAssistantError ==
    /\ idbQueue # <<>>
    /\ Head(idbQueue).kind = "add"
    /\ turns[Head(idbQueue).turn].pc = "saveAssistant"
    /\ idbQueue' = Tail(idbQueue)
    /\ CatchAndFinally(Head(idbQueue).turn, SaveError, "saveFailed")
    /\ UNCHANGED <<store, engines, initPc, userActs, vIn, vOut>>

\* ------------------------------------------------------------ specification
Next ==
    \/ DbOpenSuccess
    \/ DbOpenError
    \/ LoadSuccess
    \/ LoadError
    \/ \E e \in EngineIds : ReloadDone(e)
    \/ \E e \in EngineIds, webgpu \in BOOLEAN : ReloadFail(e, webgpu)
    \/ \E v \in SelectorValues : ModelChangeInvalid(v)
    \/ \E v \in SelectorValues : ModelChange(v)
    \/ DialogClose
    \/ \E raw \in InputTexts : SendClick(raw)
    \/ \E raw \in InputTexts : SendClickRefused(raw)
    \/ \E raw \in InputTexts : InputKeypress(raw)
    \/ \E raw \in InputTexts : InputKeypressRefused(raw)
    \/ ClearDeclined
    \/ ClearClick
    \/ ClearSuccess
    \/ ClearError
    \/ AddUserSuccess
    \/ AddUserError
    \/ \E t \in Turns : CreateResolve(t)
    \/ \E t \in Turns, error \in ThrownValues : CreateReject(t, error)
    \/ \E t \in Turns : TimerFireWins(t)
    \/ \E t \in Turns : TimerFireLate(t)
    \/ TimerFireStale
    \/ \E t \in Turns, shouldRender \in BOOLEAN : StreamDelta(t, shouldRender)
    \/ \E t \in Turns : StreamEnd(t)
    \/ \E t \in Turns, error \in ThrownValues : StreamThrow(t, error)
    \/ AddAssistantSuccess
    \/ AddAssistantError

Spec == Init /\ [][Next]_vars

\* The persistence layer answers every request, and a timer that was set
\* fires; the engine may stay silent for ever.
IdbStep ==
    \/ LoadSuccess \/ LoadError
    \/ ClearSuccess \/ ClearError
    \/ AddUserSuccess \/ AddUserError
    \/ AddAssistantSuccess \/ AddAssistantError

TimerStep == \E t \in Turns : TimerFireWins(t) \/ TimerFireLate(t)

FairSpec == Init /\ [][Next]_vars /\ WF_vars(IdbStep) /\ WF_vars(TimerStep)

\* Startup and turns alone: no clear and no model switch arrives.
TurnNext ==
    \/ DbOpenSuccess
    \/ DbOpenError
    \/ LoadSuccess
    \/ LoadError
    \/ \E e \in EngineIds : ReloadDone(e)
    \/ \E e \in EngineIds, webgpu \in BOOLEAN : ReloadFail(e, webgpu)
    \/ \E raw \in InputTexts : SendClick(raw)
    \/ \E raw \in InputTexts : InputKeypress(raw)
    \/ AddUserSuccess
    \/ AddUserError
    \/ \E t \in Turns : CreateResolve(t)
    \/ \E t \in Turns, error \in ThrownValues : CreateReject(t, error)
    \/ \E t \in Turns : TimerFireWins(t)
    \/ \E t \in Turns : TimerFireLate(t)
    \/ TimerFireStale
    \/ \E t \in Turns, shouldRender \in BOOLEAN : StreamDelta(t, shouldRender)
    \/ \E t \in Turns : StreamEnd(t)
    \/ \E t \in Turns, error \in ThrownValues : StreamThrow(t, error)
    \/ AddAssistantSuccess
    \/ AddAssistantError

TurnSpec == Init /\ [][TurnNext]_vars

\* The application with a Store that opens and answers every request with
\* success.
StoreOkNext ==
    \/ DbOpenSuccess
    \/ LoadSuccess
    \/ \E e \in EngineIds : ReloadDone(e)
    \/ \E e \in EngineIds, webgpu \in BOOLEAN : ReloadFail(e, webgpu)
    \/ \E v \in SelectorValues : ModelChangeInvalid(v)
    \/ \E v \in SelectorValues : ModelChange(v)
    \/ DialogClose
    \/ \E raw \in InputTexts : SendClick(raw)
    \/ \E raw \in InputTexts : SendClickRefused(raw)
    \/ \E raw \in InputTexts : InputKeypress(raw)
    \/ \E raw \in InputTexts : InputKeypressRefused(raw)
    \/ ClearDeclined
    \/ ClearClick
    \/ ClearSuccess
    \/ AddUserSuccess
    \/ \E t \in Turns : CreateResolve(t)
    \/ \E t \in Turns, error \in ThrownValues : CreateReject(t, error)
    \/ \E t \in Turns : TimerFireWins(t)
    \/ \E t \in Turns : TimerFireLate(t)
    \/ TimerFireStale
    \/ \E t \in Turns, shouldRender \in BOOLEAN : StreamDelta(t, shouldRender)
    \/ \E t \in Turns : StreamEnd(t)
    \/ \E t \in Turns, error \in ThrownValues : StreamThrow(t, error)
    \/ AddAssistantSuccess

StoreOkSpec == Init /\ [][StoreOkNext]_vars

\* validateMessage applied to every input text up to MaxInputLen.
ValidateInit ==
    /\ AppInit
    /\ vIn \in InputStrings
    /\ vOut = NoResult

Validate ==
    /\ vOut = NoResult
    /\ vOut' = validateMessage(vIn)
    /\ UNCHANGED <<state, controls, chatMessages, store, idbQueue, engines,
                   timers, initPc, turns, userActs, vIn>>

ValidateNext == Validate

ValidateSpec == ValidateInit /\ [][ValidateNext]_vars

\* One observed send attempt.  The handler runs on the text raw; vIn keeps
\* the text and vOut the handler's `validation`, so that an attempt that
\* changes nothing in the application is still a step.
NotValidated == [valid |-> FALSE, error |-> "not validated"]

\* click on the send button with raw in the message input
ClickAttempt(raw) ==
    /\ vOut = NoResult
    /\ ~controls.send
    /\ vIn' = raw
    /\ vOut' = validateMessage(Trim(raw))
    /\ \/ SendAccepted(raw)
       \/ SendRefused(raw)

\* Enter in the message input holding raw: the text is validated only when
\* no turn is in progress and an engine exists.
KeypressAttempt(raw) ==
    /\ vOut = NoResult
    /\ ~controls.input
    /\ vIn' = raw
    /\ vOut' = IF CanSend THEN validateMessage(Trim(raw)) ELSE NotValidated
    /\ \/ SendAccepted(raw)
       \/ SendRefused(raw)

\* No attempt was observed yet.
Probing == vOut = NoResult

\* Startup, model switches, sends and turns run until one send attempt is
\* observed.  Clears play no part in the attempt and are left to Spec.
SendNext ==
    \/ Probing /\ DbOpenSuccess
    \/ Probing /\ DbOpenError
    \/ Probing /\ LoadSuccess
    \/ Probing /\ LoadError
    \/ Probing /\ \E e \in EngineIds : ReloadDone(e)
    \/ Probing /\ \E e \in EngineIds, webgpu \in BOOLEAN : ReloadFail(e, webgpu)
    \/ Probing /\ \E v \in SelectorValues : ModelChange(v)
    \/ Probing /\ \E raw \in InputTexts : SendClick(raw)
    \/ Probing /\ \E raw \in InputTexts : InputKeypress(raw)
    \/ Probing /\ AddUserSuccess
    \/ Probing /\ AddUserError
    \/ Probing /\ \E t \in Turns : CreateResolve(t)
    \/ Probing /\ \E t \in Turns, error \in ThrownValues : CreateReject(t, error)
    \/ Probing /\ \E t \in Turns : TimerFireWins(t)
    \/ Probing /\ \E t \in Turns : TimerFireLate(t)
    \/ Probing /\ \E t \in Turns, shouldRender \in BOOLEAN : StreamDelta(t, shouldRender)
    \/ Probing /\ \E t \in Turns : StreamEnd(t)
    \/ Probing /\ \E t \in Turns, error \in ThrownValues : StreamThrow(t, error)
    \/ Probing /\ AddAssistantSuccess
    \/ Probing /\ AddAssistantError
    \/ \E raw \in InputTexts : ClickAttempt(raw)
    \/ \E raw \in InputTexts : KeypressAttempt(raw)

SendSpec == Init /\ [][SendNext]_vars

\* One observed change event of the selector.  vIn keeps the value selected
\* and vOut the answer of isValidModel, so that a rejected selection is
\* still a step.
Selected(v) == [valid |-> isValidModel(v), error |-> "selected"]

SelectAttempt(v) ==
    /\ vOut = NoResult
    /\ ~controls.select
    /\ vIn' = v
    /\ vOut' = Selected(v)
    /\ \/ SelectAccepted(v)
       \/ SelectRejected(v)

\* Startup, model switches and turns run until one selection is observed.
SelectNext ==
    \/ Probing /\ DbOpenSuccess
    \/ Probing /\ DbOpenError
    \/ Probing /\ LoadSuccess
    \/ Probing /\ LoadError
    \/ Probing /\ \E e \in EngineIds : ReloadDone(e)
    \/ Probing /\ \E e \in EngineIds, webgpu \in BOOLEAN : ReloadFail(e, webgpu)
    \/ Probing /\ \E v \in SelectorValues : ModelChange(v)
    \/ Probing /\ \E raw \in InputTexts : SendClick(raw)
    \/ Probing /\ AddUserSuccess
    \/ Probing /\ \E t \in Turns : CreateResolve(t)
    \/ Probing /\ \E t \in Turns, error \in ThrownValues : CreateReject(t, error)
    \/ Probing /\ \E t \in Turns, shouldRender \in BOOLEAN : StreamDelta(t, shouldRender)
    \/ Probing /\ \E t \in Turns : StreamEnd(t)
    \/ Probing /\ AddAssistantSuccess
    \/ \E v \in SelectorValues : SelectAttempt(v)

SelectSpec == Init /\ [][SelectNext]_vars

\* trimChatHistory applied to every Window of up to MaxWindowLen messages
\* drawn from two distinct messages.
MaxWindowLen == MAX_CHAT_HISTORY + 2
WindowMessages == {Msg("user", <<"x">>), Msg("assistant", <<"a">>)}
Windows == UNION {[1..k -> WindowMessages] : k \in 0..MaxWindowLen}

TrimInit ==
    /\ AppInit
    /\ vIn \in Windows
    /\ vOut = NoResult

Trimmed(window) == [valid |-> TRUE, error |-> "trimmed", messages |-> window]

TrimStep ==
    /\ vOut = NoResult
    /\ vOut' = Trimmed(trimChatHistory(vIn))
    /\ UNCHANGED <<appVars, vIn>>

TrimNext == TrimStep

TrimSpec == TrimInit /\ [][TrimNext]_vars

\* ------------------------------------------------- the records of the store
\* The object store `messages`: records with the autoIncrement key id and
\* the indexed field timestamp.  vIn holds the database (records, key
\* generator), the clock and the messages appended so far.
EmptyDb == [recs |-> {}, nextId |-> 1, now |-> 0, log |-> <<>>]

StoredMessage(id, timestamp, message) ==
    [id |-> id, timestamp |-> timestamp,
     role |-> message.role, content |-> message.content]

\* saveMessage: store.add({...message, timestamp: Date.now()})
saveMessage(db, message) ==
    [db EXCEPT !.recs = @ \cup {StoredMessage(db.nextId, db.now, message)},
               !.nextId = @ + 1,
               !.log = Append(@, message)]

\* index.getAll() on the index `timestamp`: by index key, then primary key.
RECURSIVE IndexGetAll(_)
IndexGetAll(recs) ==
    IF recs = {}
    THEN <<>>
    ELSE LET first == CHOOSE r \in recs : \A q \in recs :
                          \/ r.timestamp < q.timestamp
                          \/ r.timestamp = q.timestamp /\ r.id <= q.id
         IN <<first>> \o IndexGetAll(recs \ {first})

\* An insertion that puts r before the records of the same timestamp.
InsertByTimestamp_BeforeEqual(r, sorted) ==
    LET before == {i \in 1..Len(sorted) : sorted[i].timestamp < r.timestamp}
        k == Cardinality(before)
    IN SubSeq(sorted, 1, k) \o <<r>> \o SubSeq(sorted, k + 1, Len(sorted))

\* r inserted into a sequence sorted by timestamp, after the records whose
\* timestamp is not greater: Array.prototype.sort is stable.
InsertByTimestamp(r, sorted) ==
    LET before == {i \in 1..Len(sorted) : sorted[i].timestamp <= r.timestamp}
        k == Cardinality(before)
    IN SubSeq(sorted, 1, k) \o <<r>> \o SubSeq(sorted, k + 1, Len(sorted))

\* storedMessages.sort((a, b) => a.timestamp - b.timestamp)
RECURSIVE SortByTimestamp(_)
SortByTimestamp(records) ==
    IF records = <<>>
    THEN <<>>
    ELSE InsertByTimestamp(records[Len(records)],
                           SortByTimestamp(SubSeq(records, 1, Len(records) - 1)))

\* storedMessages.map(({ id, timestamp, ...msg }) => msg)
StripStored(records) ==
    [i \in 1..Len(records) |-> Msg(records[i].role, records[i].content)]

loadMessages(db) == StripStored(SortByTimestamp(IndexGetAll(db.recs)))

Loaded(messages) == [valid |-> TRUE, error |-> "loaded", messages |-> messages]

StoreInit ==
    /\ AppInit
    /\ vIn = EmptyDb
    /\ vOut = NoResult

SaveRecord(message) ==
    /\ vOut = NoResult
    /\ Len(vIn.log) < MaxAppends
    /\ vIn' = saveMessage(vIn, message)
    /\ UNCHANGED <<appVars, vOut>>

\* Date.now() has advanced by the next call.
ClockTick ==
    /\ vOut = NoResult
    /\ vIn.now < MaxClock
    /\ vIn' = [vIn EXCEPT !.now = @ + 1]
    /\ UNCHANGED <<appVars, vOut>>

LoadRecords ==
    /\ vOut = NoResult
    /\ vOut' = Loaded(loadMessages(vIn))
    /\ UNCHANGED <<appVars, vIn>>

StoreNext ==
    \/ \E message \in WindowMessages : SaveRecord(message)
    \/ ClockTick
    \/ LoadRecords

StoreSpec == StoreInit /\ [][StoreNext]_vars

\* ------------------------------------------------------ the markdown cache
\* renderMarkdownString with its cache.  A DocumentFragment is an object:
\* heap maps the fragments alive to their content, the cache (a Map, in
\* insertion order) and the caller hold references.  vIn is the cache with
\* the heap, vOut the result of the last call.
MarkdownTexts == {<<"a">>, <<"b">>, <<"c">>, <<"!">>}

\* marked or DOMPurify throws on this text.
ParserFails(markdown) == markdown = <<"!">>

FragIds == 1..(MAX_CACHE_SIZE + 2)
NoFragment == [kind |-> "free", src |-> NoText]

\* parses counts the calls of marked; inserted lists the keys in the order
\* of their markdownCache.set.
EmptyCache ==
    [cache |-> <<>>, heap |-> [f \in FragIds |-> NoFragment], parses |-> 0,
     renders |-> 0, inserted |-> <<>>]

\* The result of a call: the fragment returned and the content it had when
\* it was returned.
Rendered(kind, markdown, frag, content) ==
    [valid |-> TRUE, error |-> kind, text |-> markdown, frag |-> frag,
     content |-> content]

CacheKeys(cache) == {cache[i].key : i \in 1..Len(cache)}
CacheFrags(cache) == {cache[i].frag : i \in 1..Len(cache)}
CacheEntry(cache, markdown) ==
    cache[CHOOSE i \in 1..Len(cache) : cache[i].key = markdown]

\* The fragment of the previous call is garbage unless the cache holds it.
Collect(c, result) ==
    IF result = NoResult \/ result.frag \in CacheFrags(c.cache)
    THEN c.heap
    ELSE [c.heap EXCEPT ![result.frag] = NoFragment]

NewFrag(heap) == Min({f \in FragIds : heap[f] = NoFragment})

\* The object markdownCache.set stores, were it the fragment itself.
CachedCopy_Shared(heap, fragment) ==
    [heap |-> heap, frag |-> fragment]

\* fragment.cloneNode(true): a new object with the same content.
CachedCopy(heap, fragment) ==
    LET clone == NewFrag(heap) IN
    [heap |-> [heap EXCEPT ![clone] = heap[fragment]], frag |-> clone]

\* The eviction, deleting the newest key.
Evict_Newest(cache, heap) ==
    [cache |-> SubSeq(cache, 1, Len(cache) - 1),
     heap |-> [heap EXCEPT ![cache[Len(cache)].frag] = NoFragment]]

\* markdownCache.delete(markdownCache.keys().next().value)
Evict(cache, heap) ==
    [cache |-> Tail(cache),
     heap |-> [heap EXCEPT ![Head(cache).frag] = NoFragment]]

\* The size test written > instead of >=.
MakeRoom_OffByOne(cache, heap) ==
    IF Len(cache) > MAX_CACHE_SIZE
    THEN Evict(cache, heap)
    ELSE [cache |-> cache, heap |-> heap]

\* if (markdownCache.size >= MAX_CACHE_SIZE) { ... delete(firstKey) }
MakeRoom(cache, heap) ==
    IF Len(cache) >= MAX_CACHE_SIZE
    THEN Evict(cache, heap)
    ELSE [cache |-> cache, heap |-> heap]

\* renderMarkdownString whose catch block stored the fallback in the cache.
renderMarkdownCached_CachesFallback(c, previous, markdown) ==
    LET heap == Collect(c, previous)
        fragment == NewFrag(heap)
        counted == [c EXCEPT !.renders = @ + 1]
    IN
    IF markdown \in CacheKeys(c.cache)
    THEN [c |-> [counted EXCEPT !.heap =
                    [heap EXCEPT ![fragment] =
                        heap[CacheEntry(c.cache, markdown).frag]]],
          result |-> Rendered("hit", markdown, fragment,
                              heap[CacheEntry(c.cache, markdown).frag])]
    ELSE LET content == IF ParserFails(markdown)
                        THEN PlainText(markdown)
                        ELSE renderMarkdownString(markdown)
             parsed == [heap EXCEPT ![fragment] = content]
             room == MakeRoom(c.cache, parsed)
             copy == CachedCopy(room.heap, fragment)
         IN [c |-> [counted EXCEPT
                       !.cache = Append(room.cache, [key |-> markdown, frag |-> copy.frag]),
                       !.heap = copy.heap,
                       !.parses = @ + 1,
                       !.inserted = Append(@, markdown)],
             result |-> Rendered(IF ParserFails(markdown) THEN "failed" ELSE "miss",
                                 markdown, fragment, content)]

\* renderMarkdownString(markdown) on the cache c, the previous result being
\* `previous`: the cache after the call and the result of the call.
renderMarkdownCached(c, previous, markdown) ==
    LET heap == Collect(c, previous)
        fragment == NewFrag(heap)
        counted == [c EXCEPT !.renders = @ + 1]
    IN
    IF markdown \in CacheKeys(c.cache)
    THEN \* hit: a new fragment with clones of the cached child nodes
         [c |-> [counted EXCEPT !.heap =
                    [heap EXCEPT ![fragment] =
                        heap[CacheEntry(c.cache, markdown).frag]]],
          result |-> Rendered("hit", markdown, fragment,
                              heap[CacheEntry(c.cache, markdown).frag])]
    ELSE IF ParserFails(markdown)
    THEN \* catch: a fragment holding the raw text; nothing is cached
         [c |-> [counted EXCEPT !.heap = [heap EXCEPT ![fragment] = PlainText(markdown)],
                                !.parses = @ + 1],
          result |-> Rendered("failed", markdown, fragment, PlainText(markdown))]
    ELSE \* miss: parse, sanitize, make room, cache a copy
         LET parsed == [heap EXCEPT ![fragment] = renderMarkdownString(markdown)]
             room == MakeRoom(c.cache, parsed)
             copy == CachedCopy(room.heap, fragment)
         IN [c |-> [counted EXCEPT
                       !.cache = Append(room.cache, [key |-> markdown, frag |-> copy.frag]),
                       !.heap = copy.heap,
                       !.parses = @ + 1,
                       !.inserted = Append(@, markdown)],
             result |-> Rendered("miss", markdown, fragment,
                                 renderMarkdownString(markdown))]

CacheInit ==
    /\ AppInit
    /\ vIn = EmptyCache
    /\ vOut = NoResult

RenderMarkdown(markdown) ==
    /\ vIn.renders < MaxRenders
    /\ LET call == renderMarkdownCached(vIn, vOut, markdown) IN
        /\ vIn' = call.c
        /\ vOut' = call.result
    /\ UNCHANGED appVars

\* The caller appends the returned fragment to an element: its child nodes
\* move out of the fragment.
ConsumeFragment ==
    /\ vOut # NoResult
    /\ vIn.heap[vOut.frag] # EmptyContent
    /\ vIn' = [vIn EXCEPT !.heap = [@ EXCEPT ![vOut.frag] = EmptyContent]]
    /\ UNCHANGED <<appVars, vOut>>

CacheNext ==
    \/ \E markdown \in MarkdownTexts : RenderMarkdown(markdown)
    \/ ConsumeFragment

CacheSpec == CacheInit /\ [][CacheNext]_vars

\* ------------------------------------------------------ the render throttle
\* The for-await loop of sendMessage with its clock.  vIn holds the clock,
\* the locals lastRenderTime and assistantMessage (buf), the content of the
\* bubble (shown) and the instants of the renders so far; vOut the last
\* iteration: whether it rendered, when, and lastRenderTime before it.
StreamOpened(now) ==
    [now |-> now, opened |-> now, lastRenderTime |-> now, buf |-> NoText,
     shown |-> EmptyContent, renderTimes |-> <<>>]

\* The test with > instead of >=.
ShouldRender_Strict(currentTime, lastRenderTime) ==
    currentTime - lastRenderTime > RENDER_INTERVAL_MS

\* shouldRender = currentTime - lastRenderTime >= RENDER_INTERVAL_MS
ShouldRender(currentTime, lastRenderTime) ==
    currentTime - lastRenderTime >= RENDER_INTERVAL_MS

Iteration(rendered, at, since) ==
    [valid |-> TRUE, error |-> "delta", rendered |-> rendered, at |-> at,
     since |-> since]

ThrottleInit ==
    /\ AppInit
    /\ vIn \in {StreamOpened(now) : now \in 0..1}
    /\ vOut = NoResult

\* Time passes between two chunks.  Date.now() reads the wall clock: the
\* next reading is any instant, an earlier one included.
TimePasses(now) ==
    /\ now # vIn.now
    /\ vIn' = [vIn EXCEPT !.now = now]
    /\ UNCHANGED <<appVars, vOut>>

\* One iteration of the loop for a chunk with content.
ThrottledDelta ==
    /\ Len(vIn.buf) < MaxChunks
    /\ LET assistantMessage == vIn.buf \o DeltaAt(Len(vIn.buf) + 1)
           currentTime == vIn.now
           shouldRender == ShouldRender(currentTime, vIn.lastRenderTime)
       IN /\ vIn' = IF shouldRender
                    THEN [vIn EXCEPT !.buf = assistantMessage,
                                     !.shown = renderMarkdownString(assistantMessage),
                                     !.lastRenderTime = currentTime,
                                     !.renderTimes = Append(@, currentTime)]
                    ELSE [vIn EXCEPT !.buf = assistantMessage]
          /\ vOut' = Iteration(shouldRender, currentTime, vIn.lastRenderTime)
    /\ UNCHANGED appVars

ThrottleNext ==
    \/ \E now \in 0..MaxTime : TimePasses(now)
    \/ ThrottledDelta

ThrottleSpec == ThrottleInit /\ [][ThrottleNext]_vars

\* ================================================================ properties
Last(s) == s[Len(s)]

TurnsInProgress == {t \in Turns : InProgress(t)}

\* C1: at most one turn is in progress at any time, and at most one
\* generation request is outstanding: a click or an Enter key arriving while
\* a turn awaits its first token or streams starts no second turn.
C1_SingleTurn ==
    /\ Cardinality(TurnsInProgress) <= 1
    /\ Cardinality({t \in Turns : turns[t].req.issued}) <= 1
    /\ \A t \in TurnsInProgress : state.isLoading

\* A turn is streaming while the message input still accepts the Enter key.
C1_Witness ==
    \E t \in Turns :
        /\ turns[t].pc = "streaming"
        /\ turns[t].buf # NoText
        /\ ~controls.input
        /\ getRateLimitStatus(state.requestCount).allowed

\* The timer of turn t fires in this step, the turn being in its loop with
\* a non-empty buffer.
TimeoutMidStream(t) ==
    /\ turns[t].pc = "streaming"
    /\ turns[t].buf # NoText
    /\ t \in timers
    /\ t \notin timers'
    /\ turns'[t].outcome \notin {"success", "error"}

\* C2: the timeout covers the whole consumption of the stream: when the
\* timer fires after fragments were received and before the stream ends,
\* the turn ends as timed out, shows the timeout text, and the partial text
\* goes neither to the Window nor to the Store.
C2_TimeoutCoversStreaming ==
    [][\A t \in Turns :
        TimeoutMidStream(t) =>
            /\ turns'[t].pc = "returned"
            /\ turns'[t].outcome = "timeout"
            /\ chatMessages' # <<>>
            /\ Last(chatMessages') = renderMessage("assistant", TIMEOUT_TEXT)
            /\ state'.messages = state.messages
            /\ store' = store]_vars

\* C3: on every exit path of a turn, a rejected Store append of the user
\* message included, isLoading is cleared: no state has isLoading true while
\* no turn is in progress.
C3_BusyOnlyDuringTurn ==
    state.isLoading => TurnsInProgress # {}

\* C4: if the timer of a turn eventually fires, the turn eventually ends
\* and the application is idle again, even when the engine never answers
\* the request or yields some fragments and then never ends the stream.
C4_BoundedResponse ==
    \A t \in Turns :
        (turns[t].pc \in {"awaitCreate", "streaming"}) ~> ~state.isLoading

\* The turn t ends in this step with the given outcome.
EndsWith(t, outcome) ==
    /\ InProgress(t)
    /\ ~InProgress(t)'
    /\ turns'[t].outcome = outcome

\* msgs ends with the user message followed by the assistant message.
EndsWithExchange(msgs, user, assistant) ==
    /\ Len(msgs) >= 2
    /\ msgs[Len(msgs) - 1] = Msg("user", user)
    /\ msgs[Len(msgs)] = Msg("assistant", assistant)

AssistantCount(msgs) ==
    Cardinality({i \in 1..Len(msgs) : msgs[i].role = "assistant"})

\* C5: when the stream of a turn ends without error and the buffer is not
\* empty, the Window and (while the Store is open) the Store each gain
\* exactly one assistant message, the buffer, and the user message of the
\* turn precedes it in both; when the buffer is empty neither gains an
\* assistant message.
C5_CommitOnCompletion ==
    [][\A t \in Turns :
        EndsWith(t, "success") =>
            IF turns[t].buf # NoText
            THEN /\ EndsWithExchange(state'.messages, turns[t].msg, turns[t].buf)
                 /\ state.db = "open" =>
                        EndsWithExchange(store', turns[t].msg, turns[t].buf)
            ELSE /\ AssistantCount(state'.messages) = AssistantCount(state.messages)
                 /\ AssistantCount(store') = AssistantCount(store)]_vars

\* The generation request of turn t is issued in this step.
Issues(t) == ~turns[t].req.issued /\ turns'[t].req.issued

C7_EngineWithoutStore ==
    (initPc # "openDb" /\ state.db = "null") => state.engine # 0

\* C8: when completions.create or the stream fails for a reason other than
\* the timer, the turn shows the generic failure text, whatever the error
\* holds, and neither the Store nor the Window gains an assistant message.
C8_StreamingFailure ==
    [][\A t \in Turns :
        EndsWith(t, "error") =>
            /\ chatMessages' # <<>>
            /\ Last(chatMessages') = renderMessage("assistant", FAILURE_TEXT)
            /\ store' = store
            /\ state'.messages = state.messages]_vars

\* C9: while a turn is in progress only the turn itself changes the Window
\* and the request counter: a step that is not a step of the turn (a clear,
\* a model switch) leaves both as they are.
C9_WindowOnlyByTurn ==
    [][(TurnsInProgress # {} /\ turns' = turns) =>
            /\ state'.messages = state.messages
            /\ state'.requestCount = state.requestCount]_vars

\* C10: validateMessage answers Invalid exactly when the trimmed text has
\* length 0 or a length above MAX_MESSAGE_LENGTH; a text of exactly
\* MAX_MESSAGE_LENGTH characters is valid; every Invalid carries a reason.
C10_ValidateMessage ==
    vOut # NoResult =>
        LET n == Len(Trim(vIn)) IN
        /\ ~vOut.valid <=> (n = 0 \/ n > MAX_MESSAGE_LENGTH)
        /\ n = MAX_MESSAGE_LENGTH => vOut.valid
        /\ ~vOut.valid => vOut.error \in {"empty", "too long"}

\* validateMessage accepted a padded text whose trimmed length is the limit.
C10_Witness ==
    /\ vOut # NoResult
    /\ vOut.valid
    /\ Len(Trim(vIn)) = MAX_MESSAGE_LENGTH
    /\ Len(vIn) > MAX_MESSAGE_LENGTH

\* A send attempt is made in this step.
Attempts == vOut = NoResult /\ vOut' # NoResult

\* The text fails validation: empty after trimming, or too long.
FailsValidation(raw) ==
    Len(Trim(raw)) = 0 \/ Len(Trim(raw)) > MAX_MESSAGE_LENGTH

\* Nothing of the conversation changes and no request is issued.
NoSendEffect ==
    /\ state' = state
    /\ store' = store
    /\ idbQueue' = idbQueue
    /\ turns' = turns
    /\ timers' = timers

\* C11: a send attempt whose text fails validation changes neither the
\* Store, the Window, requestCount nor isLoading, and issues no request.
C11_InvalidSendNoEffect ==
    [][(Attempts /\ FailsValidation(vIn')) => NoSendEffect]_vars

\* An invalid text was submitted while a valid one would have started a turn.
C11_Witness ==
    /\ vOut # NoResult
    /\ FailsValidation(vIn)
    /\ ~state.isLoading
    /\ state.engine # 0
    /\ state.requestCount < MAX_DAILY_REQUESTS

\* C12: a send attempt that passed validation and the handler's test is
\* denied by the rate check exactly when requestCount >= MAX_DAILY_REQUESTS;
\* a denied send changes nothing and issues no request, one that is not
\* denied starts a turn.
C12_QuotaGate ==
    [][(Attempts /\ ~FailsValidation(vIn') /\ CanSend) =>
          IF state.requestCount >= MAX_DAILY_REQUESTS
          THEN NoSendEffect
          ELSE /\ state'.isLoading
               /\ \E t \in Turns : ~InProgress(t) /\ InProgress(t)']_vars

\* A valid text was submitted in an idle application whose counter is at the
\* limit.
C12_Witness ==
    /\ vOut # NoResult
    /\ ~FailsValidation(vIn)
    /\ ~state.isLoading
    /\ state.engine # 0
    /\ state.requestCount = MAX_DAILY_REQUESTS
    /\ vOut.valid

\* C13: requestCount never decreases, grows by exactly one in each step that
\* issues a generation request and in no other step, and never exceeds
\* MAX_DAILY_REQUESTS, over any sequence of sends, clears and model switches.
C13_RequestCounter ==
    [][/\ state'.requestCount >= state.requestCount
       /\ \A t \in Turns : Issues(t) => state'.requestCount = state.requestCount + 1
       /\ state'.requestCount # state.requestCount => \E t \in Turns : Issues(t)
       /\ state'.requestCount <= MAX_DAILY_REQUESTS]_vars

\* The counter is at the limit after a turn that failed or timed out, and a
\* clear or a model switch has happened.
C13_Witness ==
    /\ state.requestCount = MAX_DAILY_REQUESTS
    /\ userActs > 0
    /\ \E t \in Turns : turns[t].outcome \in {"timeout", "error"}

\* C14: in every reachable state, the suspension points inside a turn and
\* the state after the startup restore included, the Window holds at most
\* MAX_CHAT_HISTORY messages.
C14_WindowBound ==
    Len(state.messages) <= MAX_CHAT_HISTORY

\* C15: trimming a Window of more than MAX_CHAT_HISTORY messages leaves
\* exactly its MAX_CHAT_HISTORY most recently appended messages in their
\* order; trimming a Window at or below the bound changes nothing.
C15_WindowTrimming ==
    vOut # NoResult =>
        LET n == Len(vIn)
            r == vOut.messages
        IN IF n > MAX_CHAT_HISTORY
           THEN /\ Len(r) = MAX_CHAT_HISTORY
                /\ \A i \in 1..MAX_CHAT_HISTORY : r[i] = vIn[n - MAX_CHAT_HISTORY + i]
           ELSE r = vIn

\* A Window two messages over the bound, whose oldest and newest parts
\* differ, was trimmed.
C15_Witness ==
    /\ vOut # NoResult
    /\ Len(vIn) = MAX_CHAT_HISTORY + 2
    /\ SubSeq(vIn, 1, MAX_CHAT_HISTORY) # vOut.messages

C17_StoreCapped ==
    Len(store) <= MAX_STORED_MESSAGES

\* C18: after any sequence of render calls, hits, misses and failed renders,
\* the markdown cache holds at most MAX_CACHE_SIZE entries.
C18_CacheBound ==
    Len(vIn.cache) <= MAX_CACHE_SIZE

\* The cache is full after more inserts than its capacity, and the last
\* call was a failed render.
C18_Witness ==
    /\ Len(vIn.cache) = MAX_CACHE_SIZE
    /\ Len(vIn.inserted) > MAX_CACHE_SIZE
    /\ vOut # NoResult
    /\ vOut.error = "failed"

\* A call of renderMarkdownString is made in this step.
Renders == vIn'.renders = vIn.renders + 1

KeysInOrder(cache) == [i \in 1..Len(cache) |-> cache[i].key]

\* The last MAX_CACHE_SIZE keys inserted, oldest first.
LastInserted(inserted) ==
    IF Len(inserted) > MAX_CACHE_SIZE
    THEN SubSeq(inserted, Len(inserted) - MAX_CACHE_SIZE + 1, Len(inserted))
    ELSE inserted

\* C19: the cache evicts in strict insertion order: after every call it
\* holds exactly the MAX_CACHE_SIZE most recently inserted texts in the
\* order of their insertion, so that one insert beyond the capacity evicts
\* the first-inserted entry and no other; a lookup is a hit exactly for
\* those texts (the evicted text misses); a hit leaves the cache as it is.
C19_InsertionOrderEviction ==
    [][Renders =>
          /\ KeysInOrder(vIn'.cache) = LastInserted(vIn'.inserted)
          /\ vOut'.error = "hit" <=>
                \E i \in 1..Len(LastInserted(vIn.inserted)) :
                    LastInserted(vIn.inserted)[i] = vOut'.text
          /\ vOut'.error = "hit" =>
                /\ KeysInOrder(vIn'.cache) = KeysInOrder(vIn.cache)
                /\ vIn'.inserted = vIn.inserted]_vars

\* MAX_CACHE_SIZE + 1 distinct texts were inserted, a hit was served, and
\* the first-inserted text was looked up again: a miss, inserted anew.
C19_Witness ==
    /\ Len(vIn.inserted) = MAX_CACHE_SIZE + 2
    /\ vIn.inserted[1] = vIn.inserted[MAX_CACHE_SIZE + 2]
    /\ Cardinality({vIn.inserted[i] : i \in 1..(MAX_CACHE_SIZE + 1)}) = MAX_CACHE_SIZE + 1
    /\ vIn.renders = MAX_CACHE_SIZE + 3
    /\ vIn.parses = MAX_CACHE_SIZE + 2
    /\ vOut.error = "miss"

\* The text of the previous call is rendered again in this step.
RendersAgain == Renders /\ vOut # NoResult /\ vOut'.text = vOut.text

\* C20 as stated: rendering the same text twice yields content-equivalent
\* fragments, the second call is served from the cache without a call of
\* the parser, and the fragment returned is a copy of its own: consuming
\* the first fragment does not change what the second call returns.
C20_CacheIdempotence ==
    [][RendersAgain =>
          /\ vOut'.content = vOut.content
          /\ vOut'.error = "hit"
          /\ vIn'.parses = vIn.parses
          /\ vOut'.frag \notin CacheFrags(vIn'.cache)]_vars

\* C20 amended: the same, the second call being served from the cache when
\* the first render succeeded; a text whose render failed is not cached and
\* is parsed again, with the same plain-text result.
C20_CacheIdempotenceAfterSuccess ==
    [][RendersAgain =>
          /\ vOut'.content = vOut.content
          /\ vOut'.frag \notin CacheFrags(vIn'.cache)
          /\ IF vOut.error = "failed"
             THEN vOut'.error = "failed" /\ vIn'.parses = vIn.parses + 1
             ELSE vOut'.error = "hit" /\ vIn'.parses = vIn.parses]_vars

\* A text was rendered (miss) and rendered again (hit), the fragment of the
\* second call was consumed, and the cached fragment still has its content.
C20_Witness ==
    /\ vIn.renders = 2
    /\ vIn.parses = 1
    /\ vOut.error = "hit"
    /\ vIn.heap[vOut.frag] = EmptyContent
    /\ vIn.heap[vIn.cache[1].frag] = renderMarkdownString(vOut.text)

\* The content of the cached fragments, by key, in the order of the cache.
CacheContents(c) ==
    [i \in 1..Len(c.cache) |->
        [key |-> c.cache[i].key, content |-> c.heap[c.cache[i].frag]]]

\* C21: when the parser or the sanitizer throws for a text, the call returns
\* normally a fragment holding that raw text as one text node, and leaves
\* the cache as it was: no entry is inserted, evicted or altered.
C21_RenderFailurePolicy ==
    [][(Renders /\ ParserFails(vOut'.text)) =>
          /\ vOut'.valid
          /\ vOut'.error = "failed"
          /\ vOut'.content = [kind |-> "text", src |-> vOut'.text]
          /\ vIn'.heap[vOut'.frag] = vOut'.content
          /\ vOut'.frag \notin CacheFrags(vIn'.cache)
          /\ CacheContents(vIn') = CacheContents(vIn)
          /\ vIn'.inserted = vIn.inserted]_vars

\* A render failed while the cache was full.
C21_Witness ==
    /\ vOut # NoResult
    /\ vOut.error = "failed"
    /\ Len(vIn.cache) = MAX_CACHE_SIZE
    /\ vIn.heap[vOut.frag] = PlainText(vOut.text)

\* The assistant message of turn t is appended to the Store in this step.
Commits(t) ==
    /\ turns[t].pc = "saveAssistant"
    /\ turns'[t].pc # "saveAssistant"
    /\ store' = Append(store, Msg("assistant", turns[t].buf))

\* The bubble of turn t is in #chat-messages.
Displayed(t) == \E i \in 1..Len(chatMessages) : chatMessages[i].turn = t

\* C22: whenever the assistant message of a turn is committed to the Store,
\* the bubble of the turn is displayed and holds the rendering of exactly
\* the committed content, whether or not the last delta was rendered.
C22_ForcedFinalRender ==
    [][\A t \in Turns :
        Commits(t) =>
            /\ Displayed(t)
            /\ turns[t].shown = renderMarkdownString(turns[t].buf)]_vars

\* Another model is selected in this step.
SwitchesModel == state'.selectedModel # state.selectedModel

\* C23: selecting another whitelisted model while no turn is in progress
\* empties the Window and leaves the Store, and the requests pending on it,
\* as they are, so that the next startup loads the same messages.
C23_ModelSwitchWhileIdle ==
    [][(SwitchesModel /\ TurnsInProgress = {}) =>
          /\ state'.messages = <<>>
          /\ store' = store
          /\ idbQueue' = idbQueue]_vars

\* The model was switched after startup had restored a conversation, no turn
\* having been started: the Window is empty, the Store is not.
C23_Witness ==
    /\ initPc = "done"
    /\ engines[1].owner = "initialize"
    /\ engines[1].status = "ready"
    /\ engines[2].owner = "change"
    /\ \A t \in Turns : turns[t].pc = "none"
    /\ state.messages = <<>>
    /\ store \in InitialStores

\* C24: a selected value that is not in AVAILABLE_MODELS is rejected:
\* selectedModel, the engine, the Window and everything else of the
\* application stay as they are and no engine is constructed or loaded;
\* selectedModel is a member of AVAILABLE_MODELS in every state.
C24_ModelWhitelist ==
    [][/\ (Attempts /\ vIn' \notin AVAILABLE_MODELS) =>
              /\ ~vOut'.valid
              /\ state' = state
              /\ engines' = engines
              /\ controls' = controls
       /\ state.selectedModel \in AVAILABLE_MODELS
       /\ state'.selectedModel \in AVAILABLE_MODELS]_vars

\* A value outside the whitelist was selected while the selector was enabled
\* and a switch to another model was possible.
C24_Witness ==
    /\ vOut # NoResult
    /\ vOut.error = "selected"
    /\ vIn \notin AVAILABLE_MODELS
    /\ ~controls.select
    /\ state.engine # 0
    /\ userActs < MaxUserActs
    /\ state.messages # <<>>

\* An engine load has failed with an error that isWebGPUError recognises.
CapabilityUnavailable == \E e \in EngineIds : engines[e].status = "unavailable"

\* C25: once an engine load has failed with a GPU-capability error, the send
\* button, the message input and the model selector are disabled in every
\* later state.
C25_CapabilityUnavailableFatal ==
    CapabilityUnavailable =>
        /\ controls.send
        /\ controls.input
        /\ controls.select

\* initialize() completes in this step, the Store being open and the engine
\* that initialize() constructed having loaded.
StartupCompletes ==
    /\ initPc # "done"
    /\ initPc' = "done"
    /\ state.db = "open"
    /\ \E e \in EngineIds :
          engines'[e].owner = "initialize" /\ engines'[e].status = "ready"

\* C26: when startup completes with a working Store and engine, no message
\* having been sent meanwhile, the Window holds exactly the messages of the
\* Store in stored order, and the display shows these messages, whatever
\* user events arrived during startup.
C26_AutomaticRestore ==
    [][(StartupCompletes /\ \A t \in Turns : turns[t].pc = "none") =>
          /\ state'.messages = store'
          /\ chatMessages' = RestoredBubbles(store')]_vars

\* The clear handler runs to its end in one step: clearMessages returned at
\* once because no database is open.
ClearsAtOnce ==
    /\ userActs' = userActs + 1
    /\ ~SwitchesModel
    /\ state.db = "null"
    /\ state'.messages = <<>>
    /\ chatMessages' = <<>>

\* The display is emptied in this step.
EmptiesDisplay == chatMessages # <<>> /\ chatMessages' = <<>>

\* The request of clearMessages is answered in this step.
ClearAnswered ==
    /\ idbQueue # <<>>
    /\ Head(idbQueue).kind = "clear"
    /\ idbQueue' = Tail(idbQueue)

\* C27: the clear handler empties the Window and the display only when the
\* Store has been cleared; when the Store clear fails, the Window, the
\* display and the Store stay as they are.
C27_ClearHistory ==
    [][/\ (ClearsAtOnce \/ EmptiesDisplay) =>
              /\ store' = <<>>
              /\ state'.messages = <<>>
       /\ (ClearAnswered /\ store' # <<>>) =>
              /\ state'.messages = state.messages
              /\ chatMessages' = chatMessages
              /\ store' = store]_vars

\* A chunk with content is processed in this step.
ProcessesDelta == Len(vIn'.buf) = Len(vIn.buf) + 1

\* C28: a delta re-renders exactly when at least RENDER_INTERVAL_MS has
\* passed since the last render instant, which starts as the instant the
\* stream was opened; a re-render shows the whole accumulated buffer and a
\* skipped one leaves the bubble as it was; consecutive re-renders, and the
\* first one and the opening of the stream, are RENDER_INTERVAL_MS apart.
C28_RenderThrottle ==
    [][ProcessesDelta =>
          LET last == IF vIn.renderTimes = <<>>
                      THEN vIn.opened
                      ELSE vIn.renderTimes[Len(vIn.renderTimes)]
          IN /\ vOut'.since = last
             /\ vOut'.rendered <=> (vIn.now - last >= RENDER_INTERVAL_MS)
             /\ vOut'.rendered =>
                   /\ vIn'.shown = renderMarkdownString(vIn'.buf)
                   /\ vIn'.renderTimes = Append(vIn.renderTimes, vIn.now)
             /\ ~vOut'.rendered =>
                   /\ vIn'.shown = vIn.shown
                   /\ vIn'.renderTimes = vIn.renderTimes
             /\ \A i \in 1..(Len(vIn'.renderTimes) - 1) :
                   vIn'.renderTimes[i + 1] - vIn'.renderTimes[i] >= RENDER_INTERVAL_MS]_vars

\* Two re-renders exactly RENDER_INTERVAL_MS apart, a delta between them
\* having been skipped: the bubble shows the whole buffer.
C28_Witness ==
    /\ vOut # NoResult
    /\ vOut.rendered
    /\ Len(vIn.renderTimes) = 2
    /\ vIn.renderTimes[2] - vIn.renderTimes[1] = RENDER_INTERVAL_MS
    /\ Len(vIn.buf) = 3
    /\ vIn.shown = renderMarkdownString(vIn.buf)

\* How an activation of sendMessage can end: with the answer, by the timer,
\* or with an error (of the request, of the stream or of saveMessage).
TurnOutcomes == {"success", "timeout", "error", "saveFailed", "saveRejected"}

\* The timer of turn t wins the race in this step.
TimeoutWins(t) ==
    /\ turns[t].pc = "awaitCreate"
    /\ EndsWith(t, "timeout")

\* The timer of turn t fires in this step, the turn going on.
TimerFiresLate(t) ==
    /\ t \in timers
    /\ t \notin timers'
    /\ InProgress(t)
    /\ InProgress(t)'

IsSuffix(w, s) ==
    /\ Len(w) <= Len(s)
    /\ SubSeq(s, Len(s) - Len(w) + 1, Len(s)) = w

\* No turn is in progress.
Idle == ~state.isLoading /\ TurnsInProgress = {}

\* C30: in every idle state of a run in which the Store was opened and has
\* answered every request with success, the Window is a suffix of the
\* messages of the Store.
C30_WindowStoreCorrespondence ==
    (Idle /\ state.db = "open") => IsSuffix(state.messages, store)

\* A click on the send button can start a turn.
SendCanStartTurn ==
    /\ ~controls.send
    /\ ~state.isLoading
    /\ state.engine # 0

\* C31: in every state in which a send can start a turn, the current engine
\* has completed reload for selectedModel; and no turn has issued its
\* request to an engine that has not.
C31_EngineReadyBeforeRequest ==
    /\ SendCanStartTurn =>
          /\ engines[state.engine].status = "ready"
          /\ engines[state.engine].model = state.selectedModel
    /\ \A t \in Turns :
          turns[t].req.issued => engines[turns[t].req.engine].status = "ready"

\* The first n content fragments of a stream, concatenated in the order of
\* their arrival.
Received(n) == [i \in 1..n |-> Letters[i]]

\* C32: at every point of a streaming turn the buffer is the concatenation
\* of the deltas received so far in arrival order, and the bubble shows
\* nothing (before the first render) or the rendering of a non-empty prefix
\* of the buffer.
C32_DisplayedStreamPrefix ==
    \A t \in Turns :
        turns[t].pc \in {"streaming", "saveAssistant"} =>
            /\ turns[t].buf = Received(Len(turns[t].buf))
            /\ \/ turns[t].shown = EmptyContent
               \/ \E k \in 1..Len(turns[t].buf) :
                     turns[t].shown = renderMarkdownString(SubSeq(turns[t].buf, 1, k))
            /\ turns[t].elem = "null" <=> turns[t].buf = NoText
            /\ turns[t].elem = "null" => turns[t].shown = EmptyContent

\* A turn has received MaxDeltas deltas and its bubble shows the rendering
\* of the first one only.
C32_Witness ==
    \E t \in Turns :
        /\ turns[t].pc = "streaming"
        /\ Len(turns[t].buf) = MaxDeltas
        /\ turns[t].shown = renderMarkdownString(Received(1))
        /\ MaxDeltas > 1

\* C33: the message list of every generation request holds at most
\* MAX_CHAT_HISTORY messages and ends with the user message of its turn.
C33_RequestPayloadBound ==
    \A t \in Turns :
        turns[t].req.issued =>
            /\ Len(turns[t].req.messages) <= MAX_CHAT_HISTORY
            /\ turns[t].req.messages # <<>>
            /\ Last(turns[t].req.messages) = Msg("user", turns[t].msg)

====
